---- MODULE Spec2Model ----
(***************************************************************************)
(* libpaper, paper.c: the paper catalog (a gnulib hash table keyed by the   *)
(* paper name), its construction from the paper specification file, the    *)
(* lookups, and the resolution of the default and the system paper name.   *)
(*                                                                         *)
(* Strings are sequences of ASCII codes, so that case folding and the      *)
(* byte-wise hash are computed as the C code computes them.  A text line   *)
(* is the sequence of its whitespace-delimited tokens (gettok); a blank    *)
(* line is the empty sequence.  A double is a record: a finite value is    *)
(* m * 2^-e with m odd or e = 0 (exact binary arithmetic; every product    *)
(* of the model fits a 53-bit mantissa, so no rounding occurs), and NaN    *)
(* and +Inf are values of their own.                                       *)
(***************************************************************************)
EXTENDS Integers, Sequences, FiniteSets, TLC

(* ------------------------------ bounds -------------------------------- *)
\* longest specification file read by one paperinit, in lines
MaxLines == 2

(* --------------------------- character data --------------------------- *)
s_A4 == <<65, 52>>
s_a4 == <<97, 52>>
s_B5 == <<66, 53>>
s_empty == <<>>
s_72 == <<55, 50>>
s_1 == <<49>>
s_x == <<120>>
s_7x == <<55, 120>>
s_1e999 == <<49, 101, 57, 57, 57>>
s_nan == <<110, 97, 110>>
s_in == <<105, 110>>
s_ft == <<102, 116>>
s_pt == <<112, 116>>
s_m == <<109>>
s_dm == <<100, 109>>
s_cm == <<99, 109>>
s_mm == <<109, 109>>
s_zz == <<122, 122>>
s_hash == <<35, 120>>
s_letter == <<108, 101, 116, 116, 101, 114>>

\* <ctype.h> tolower in the C locale
tolower(c) == IF c >= 65 /\ c <= 90 THEN c + 32 ELSE c

\* <strings.h> strcasecmp(a, b) == 0
strcaseeq(a, b) ==
    /\ Len(a) = Len(b)
    /\ \A i \in 1..Len(a) : tolower(a[i]) = tolower(b[i])

(* ------------------------------ doubles ------------------------------- *)
RECURSIVE Norm(_, _)
Norm(m, e) ==
    IF m = 0 THEN [cls |-> "fin", m |-> 0, e |-> 0]
    ELSE IF e > 0 /\ m % 2 = 0 THEN Norm(m \div 2, e - 1)
    ELSE [cls |-> "fin", m |-> m, e |-> e]

NaN == [cls |-> "nan", m |-> 0, e |-> 0]
Inf == [cls |-> "inf", m |-> 0, e |-> 0]
DInt(n) == Norm(n, 0)

\* the C operator == on doubles: a NaN is equal to nothing
DblEq(a, b) == a.cls # "nan" /\ b.cls # "nan" /\ a = b

\* v * (double)dim, dim one of the (positive, finite) unit factors
DblMul(v, f) ==
    IF v.cls = "fin" THEN Norm(v.m * f.m, v.e + f.e) ELSE v

(* ----------------------------- unit table ----------------------------- *)
\* the factors as the float values the initialisers round to
units ==
    << [name |-> s_in, factor |-> Norm(1, 0)],
       [name |-> s_ft, factor |-> Norm(12, 0)],
       [name |-> s_pt, factor |-> Norm(14913081, 30)],
       [name |-> s_m,  factor |-> Norm(5160315, 17)],
       [name |-> s_dm, factor |-> Norm(1032063, 18)],
       [name |-> s_cm, factor |-> Norm(6605203, 24)],
       [name |-> s_mm, factor |-> Norm(10568325, 28)] >>

RECURSIVE unitfactorFrom(_, _)
unitfactorFrom(i, unit) ==
    IF i > Len(units) THEN DInt(0)
    ELSE IF strcaseeq(units[i].name, unit) THEN units[i].factor
    ELSE unitfactorFrom(i + 1, unit)

unitfactor(unit) == unitfactorFrom(1, unit)

(* ------------------------------- strtod ------------------------------- *)
IsDigit(c) == c >= 48 /\ c <= 57

\* number of decimal digits of s starting at position i
RECURSIVE DigitRun(_, _)
DigitRun(s, i) ==
    IF i <= Len(s) /\ IsDigit(s[i]) THEN 1 + DigitRun(s, i + 1) ELSE 0

\* value of the n digits of s starting at position i
RECURSIVE DigitsVal(_, _, _)
DigitsVal(s, i, n) ==
    IF n = 0 THEN 0
    ELSE 10 * DigitsVal(s, i, n - 1) + (s[i + n - 1] - 48)

RECURSIVE Pow10(_)
Pow10(n) == IF n = 0 THEN 1 ELSE 10 * Pow10(n - 1)

(* strtod(s, NULL) with errno cleared before the call: the converted value *)
(* and the set of values errno can hold afterwards.  The subject sequence  *)
(* is the longest prefix of the form digits [ e digits ] or "nan"; what    *)
(* follows it is ignored; a decimal exponent above 308 overflows.  With   *)
(* no subject sequence the result is 0 and                                *)
(* errno is left alone by ISO C and may be set to EINVAL by POSIX.         *)
(* (Signs, fractions and hexadecimal forms are not among the tokens of     *)
(* the model.)                                                             *)
strtod(s) ==
    IF strcaseeq(s, s_nan) THEN [val |-> NaN, errno |-> {"0"}]
    ELSE LET k == DigitRun(s, 1)
             mant == DigitsVal(s, 1, k)
             hasExp == /\ k > 0
                       /\ k + 2 <= Len(s)
                       /\ tolower(s[k + 1]) = 101
                       /\ DigitRun(s, k + 2) > 0
             ex == DigitsVal(s, k + 2, DigitRun(s, k + 2))
         IN IF k = 0 THEN [val |-> DInt(0), errno |-> {"0", "EINVAL"}]
            ELSE IF ~hasExp \/ mant = 0 THEN [val |-> DInt(mant), errno |-> {"0"}]
            ELSE IF ex > 308 THEN [val |-> Inf, errno |-> {"ERANGE"}]
            ELSE [val |-> DInt(mant * Pow10(ex)), errno |-> {"0"}]

(* ------------------------------ tokenizer ----------------------------- *)
\* gettokline returns a line whose first non-blank character exists and is
\* not a hash; every other line is skipped
IsContentLine(l) == Len(l) > 0 /\ l[1][1] # 35

\* the i-th gettok call on a line: a one-element sequence, or <<>> for NULL
gettok(l, i) == IF i <= Len(l) THEN <<l[i]>> ELSE <<>>

\* the first content line at or after position i of a file: <<line>>, or
\* <<>> when getline reaches the end of the file
RECURSIVE gettokline(_, _)
gettokline(lines, i) ==
    IF i > Len(lines) THEN <<>>
    ELSE IF IsContentLine(lines[i]) THEN <<lines[i]>>
    ELSE gettokline(lines, i + 1)

(* ----------------------------- hash table ----------------------------- *)
(* papers = hash_initialize(256, NULL, paperhash, papereq, paperfree):     *)
(* with the default tuning the table gets the first prime at or above      *)
(* 256 / 0.8 buckets, and grows only beyond 0.8 * 331 used buckets, which  *)
(* no catalog of the model reaches.                                        *)
NBuckets == 331

\* hash_string: value = (value * 31 + ch) % n_buckets over the bytes
RECURSIVE hash_string_from(_, _, _, _)
hash_string_from(s, i, value, n) ==
    IF i > Len(s) THEN value
    ELSE hash_string_from(s, i + 1, (value * 31 + s[i]) % n, n)

hash_string(s, n) == hash_string_from(s, 1, 0, n)

paperhash(v, n) == hash_string(v.name, n)

papereq(v, w) == strcaseeq(v.name, w.name)

\* a table is a function from its used buckets to their chains (bucket
\* head first, then the overflow entries)
EmptyTable == [b \in {} |-> <<>>]

RECURSIVE chain_find(_, _, _)
chain_find(chain, i, entry) ==
    IF i > Len(chain) THEN <<>>
    ELSE IF papereq(entry, chain[i]) THEN <<chain[i]>>
    ELSE chain_find(chain, i + 1, entry)

\* hash_lookup: the first entry of the entry's bucket that the comparator
\* accepts, <<>> for NULL
hash_lookup(table, entry) ==
    LET b == paperhash(entry, NBuckets)
    IN IF b \in DOMAIN table THEN chain_find(table[b], 1, entry) ELSE <<>>

\* hash_insert: an entry matching one already in its bucket is not
\* inserted (the old entry is returned); a new entry becomes the bucket
\* head, or is linked right after the head of a used bucket
hash_insert(table, entry) ==
    LET b == paperhash(entry, NBuckets)
    IN IF hash_lookup(table, entry) # <<>> THEN table
       ELSE IF b \in DOMAIN table
            THEN [table EXCEPT ![b] = <<table[b][1], entry>> \o Tail(table[b])]
            ELSE [c \in DOMAIN table \cup {b} |->
                     IF c = b THEN <<entry>> ELSE table[c]]

\* first used bucket above b, or NBuckets when there is none
next_bucket(table, b) ==
    LET above == {c \in DOMAIN table : c > b}
    IN IF above = {} THEN NBuckets
       ELSE CHOOSE c \in above : \A d \in above : c <= d

hash_get_first(table) ==
    LET b == next_bucket(table, -1)
    IN IF b < NBuckets THEN <<table[b][1]>> ELSE <<>>

RECURSIVE chain_index(_, _, _)
chain_index(chain, i, entry) ==
    IF i > Len(chain) THEN 0
    ELSE IF chain[i] = entry THEN i
    ELSE chain_index(chain, i + 1, entry)

\* hash_get_next: the entry after `entry' in its bucket, else the head of
\* the next used bucket
hash_get_next(table, entry) ==
    LET b == paperhash(entry, NBuckets)
        i == IF b \in DOMAIN table THEN chain_index(table[b], 1, entry) ELSE 0
        nb == next_bucket(table, b)
    IN IF i > 0 /\ i < Len(table[b]) THEN <<table[b][i + 1]>>
       ELSE IF nb < NBuckets THEN <<table[nb][1]>>
       ELSE <<>>

(* ------------------------------ paperinit ----------------------------- *)
\* the catalog pointer: NULL, or a live table
NullPapers == [live |-> FALSE, tab |-> EmptyTable]
LivePapers(t) == [live |-> TRUE, tab |-> t]

\* errno values the two strtod calls of a line can leave behind
WidthErrnos(l) == IF Len(l) >= 3 THEN strtod(l[2]).errno ELSE {"0"}
HeightErrnos(l) == IF Len(l) >= 3 THEN strtod(l[3]).errno ELSE {"0"}

(* One iteration of the loop of paperinit over the content line l, we and  *)
(* he being the errno left by the two strtod calls: the new table and the  *)
(* new value of ret.  (malloc, strndup and hash_insert are taken to        *)
(* succeed.)                                                               *)
paperinit_line(table, l, we, he) ==
    IF gettok(l, 1) # <<>> /\ gettok(l, 2) # <<>> /\ gettok(l, 3) # <<>>
    THEN LET w0 == strtod(l[2]).val
             h0 == strtod(l[3]).val
             ret1 == IF we # "0" THEN 1 ELSE 0
             ret2 == IF he # "0" THEN 1 ELSE ret1
             unit == gettok(l, 4)
             dim == IF unit # <<>> THEN unitfactor(unit[1]) ELSE DInt(0)
             known == unit # <<>> /\ ~DblEq(dim, DInt(0))
             ret3 == IF unit # <<>> /\ ~known THEN 1 ELSE ret2
             p == [name |-> l[1],
                   pswidth |-> IF known THEN DblMul(w0, dim) ELSE w0,
                   psheight |-> IF known THEN DblMul(h0, dim) ELSE h0]
         IN [tab |-> hash_insert(table, p), ret |-> ret3]
    ELSE [tab |-> table, ret |-> 2]

(* ------------------------------- queries ------------------------------ *)
paperinfo(table, paper) ==
    hash_lookup(table, [name |-> paper, pswidth |-> DInt(0), psheight |-> DInt(0)])

\* the scan with || in the place of &&
RECURSIVE paperwithsize_from_either(_, _, _, _)
paperwithsize_from_either(table, pp, pswidth, psheight) ==
    IF pp = <<>> THEN <<>>
    ELSE IF DblEq(pp[1].pswidth, pswidth) \/ DblEq(pp[1].psheight, psheight)
         THEN pp
         ELSE paperwithsize_from_either(table, hash_get_next(table, pp[1]),
                                        pswidth, psheight)

RECURSIVE paperwithsize_from(_, _, _, _)
paperwithsize_from(table, pp, pswidth, psheight) ==
    IF pp = <<>> THEN <<>>
    ELSE IF DblEq(pp[1].pswidth, pswidth) /\ DblEq(pp[1].psheight, psheight)
         THEN pp
         ELSE paperwithsize_from(table, hash_get_next(table, pp[1]), pswidth, psheight)

paperwithsize(table, pswidth, psheight) ==
    paperwithsize_from(table, hash_get_first(table), pswidth, psheight)

(* ------------------------------ resolvers ----------------------------- *)
\* compiled-in configuration (config.h)
PAPERSIZE == s_letter
PAPERCONF == "/etc/papersize"

\* getenv: <<>> for an unset variable, <<value>> for a set one
systempapersizefile(confenv) == IF confenv # <<>> THEN confenv[1] ELSE PAPERCONF

RECURSIVE Pow2(_)
Pow2(n) == IF n = 0 THEN 1 ELSE 2 * Pow2(n - 1)

\* floor(127 * r / 2^e) for 0 <= r < 2^e, e <= 30, in 32-bit steps
Mul127Shift(r, e) ==
    IF e < 15 THEN (127 * r) \div Pow2(e)
    ELSE (127 * (r \div 32768) + ((127 * (r % 32768)) \div 32768)) \div Pow2(e - 15)

(* PT_TO_MM(v) = (unsigned int)((v * 2.54 * 10 / 72) + 0.5), for a finite  *)
(* v = m / 2^e >= 0 computed exactly as floor(v * 127 / 360 + 1/2) (no     *)
(* value of the model lies close enough to a rounding boundary for the     *)
(* double arithmetic to differ).  Converting a NaN or an infinity to       *)
(* unsigned int is undefined: the result is then ub, any value.            *)
PT_TO_MM(v, ub) ==
    IF v.cls # "fin" THEN ub
    ELSE LET q == v.m \div Pow2(v.e)
             r == v.m % Pow2(v.e)
         IN (127 * q + 180 + Mul127Shift(r, v.e)) \div 360

\* the scan comparing the width alone
RECURSIVE defaultpapername_from_width(_, _, _, _)
defaultpapername_from_width(table, pp, locale, ub) ==
    IF pp = <<>> THEN PAPERSIZE
    ELSE IF PT_TO_MM(pp[1].pswidth, ub) = locale[1]
         THEN pp[1].name
         ELSE defaultpapername_from_width(table, hash_get_next(table, pp[1]),
                                          locale, ub)

RECURSIVE defaultpapername_from(_, _, _, _)
defaultpapername_from(table, pp, locale, ub) ==
    IF pp = <<>> THEN PAPERSIZE
    ELSE IF /\ PT_TO_MM(pp[1].pswidth, ub) = locale[1]
            /\ PT_TO_MM(pp[1].psheight, ub) = locale[2]
         THEN pp[1].name
         ELSE defaultpapername_from(table, hash_get_next(table, pp[1]), locale, ub)

\* locale: <<>> when the build has no LC_PAPER facility, else the
\* <<_NL_PAPER_WIDTH, _NL_PAPER_HEIGHT>> of the locale in millimetres
defaultpapername(table, locale, ub) ==
    IF locale # <<>>
    THEN defaultpapername_from(table, hash_get_first(table), locale, ub)
    ELSE PAPERSIZE

\* a file of the file system: absent (stat fails), present but not
\* readable (fopen fails), or readable with its lines
NoFile == [exists |-> FALSE, readable |-> FALSE, lines |-> <<>>]
Unreadable == [exists |-> TRUE, readable |-> FALSE, lines |-> <<>>]
TextFile(ls) == [exists |-> TRUE, readable |-> TRUE, lines |-> ls]

\* the name systempapername settles on before the catalog lookup
systempaperstr(env, confenv, fs) ==
    IF env # <<>> THEN env[1]
    ELSE LET f == fs[systempapersizefile(confenv)]
             l == IF f.exists /\ f.readable THEN gettokline(f.lines, 1) ELSE <<>>
             tok == IF l # <<>> THEN gettok(l[1], 1) ELSE <<>>
         IN IF tok # <<>> THEN tok[1] ELSE PAPERSIZE

systempapername(table, env, confenv, fs) ==
    LET paperstr == systempaperstr(env, confenv, fs)
        pp == paperinfo(table, paperstr)
    IN IF pp # <<>> THEN pp[1].name ELSE paperstr

(* ------------------------------- inputs ------------------------------- *)
\* the lines a specification file is made of
WellFormedLines ==
    { <<s_A4, s_72, s_72>>, <<s_A4, s_1, s_72>>,
      <<s_a4, s_72, s_72>>, <<s_B5, s_1, s_72>> }
UnitLines ==
    { <<s_B5, s_72, s_72, u>> : u \in {s_in, s_pt, s_zz} }
OddNumberLines ==
    { <<s_B5, s_x, s_72>>, <<s_B5, s_72, s_7x>>,
      <<s_B5, s_1e999, s_1>>, <<s_B5, s_nan, s_72>> }
ShortLines == { <<s_B5, s_72>> }
SkippedLines == { <<>>, <<s_hash>> }
Lines ==
    WellFormedLines \cup UnitLines \cup OddNumberLines \cup ShortLines
        \cup SkippedLines

\* names looked up
QueryNames == {s_A4, s_a4, s_B5, s_empty}

\* the environments a resolver is called in: the paper-size variable, the
\* paper-config variable (<<>> for an unset variable) and the file system
AltConf == "/alt/papersize"
ConfFile == TextFile(<< <<s_hash>>, <<s_a4, s_x>> >>)
FileSystem(d, a) ==
    [path \in {PAPERCONF, AltConf} |-> IF path = PAPERCONF THEN d ELSE a]
Environment(e, c, d, a) == [env |-> e, confenv |-> c, fs |-> FileSystem(d, a)]
Environments ==
    { Environment(<<>>, <<>>, NoFile, NoFile),
      Environment(<<>>, <<>>, ConfFile, NoFile),
      Environment(<<s_empty>>, <<>>, ConfFile, NoFile),
      Environment(<<s_A4>>, <<>>, ConfFile, NoFile),
      Environment(<<s_B5>>, <<>>, NoFile, NoFile),
      Environment(<<>>, <<AltConf>>, ConfFile, TextFile(<< <<s_B5>> >>)),
      Environment(<<>>, <<AltConf>>, ConfFile, TextFile(<< <<>>, <<s_hash>> >>)),
      Environment(<<>>, <<AltConf>>, ConfFile, Unreadable) }

\* the locale's paper size in millimetres, <<>> without the facility
Locales == { <<>>, <<25, 25>>, <<25, 0>> }
\* outcomes of an undefined double-to-unsigned conversion
UndefinedMM == { 0, 25 }

(* -------------------------------- state ------------------------------- *)
VARIABLES
    papers,   \* the global catalog pointer
    pc,       \* "idle": between calls; "reading": inside the loop of
              \* paperinit; "aborted": an assertion has failed
    file,     \* the lines paperinit has read from the specification file
    ret,      \* the variable ret of paperinit, its result once it returned
    last      \* the last library call: its name, arguments and result

vars == <<papers, pc, file, ret, last>>

\* the records of a table
Records(table) ==
    UNION { { table[b][i] : i \in 1..Len(table[b]) } : b \in DOMAIN table }

Init ==
    /\ papers = NullPapers
    /\ pc = "idle"
    /\ file = <<>>
    /\ ret = 0
    /\ last = [op |-> "none"]

\* assert(papers) fails: the process is aborted (assertions are compiled
\* in: nothing of the build defines NDEBUG)
AssertFails(op) ==
    /\ pc' = "aborted"
    /\ last' = [op |-> op]
    /\ UNCHANGED <<papers, file, ret>>

\* paperinit up to the fopen: a fresh table replaces whatever papers held
PaperInitOpen ==
    /\ pc = "idle"
    /\ \E opened \in BOOLEAN :
          /\ papers' = LivePapers(EmptyTable)
          /\ file' = <<>>
          /\ last' = [op |-> "paperinit", opened |-> opened]
          /\ IF opened THEN pc' = "reading" /\ ret' = 0
                       ELSE pc' = "idle" /\ ret' = -1

\* one getline of the loop of paperinit, and the loop body on a content line
PaperInitLine ==
    /\ pc = "reading"
    /\ ret = 0
    /\ Len(file) < MaxLines
    /\ \E l \in Lines : \E we \in WidthErrnos(l), he \in HeightErrnos(l) :
          /\ file' = Append(file, l)
          /\ IF IsContentLine(l)
             THEN LET r == paperinit_line(papers.tab, l, we, he)
                  IN papers' = LivePapers(r.tab) /\ ret' = r.ret
             ELSE UNCHANGED <<papers, ret>>
    /\ UNCHANGED <<pc, last>>

\* the loop of paperinit ends (ret # 0, or end of file): fclose, return ret
PaperInitReturn ==
    /\ pc = "reading"
    /\ pc' = "idle"
    /\ UNCHANGED <<papers, file, ret, last>>

\* paperdone freeing the table and leaving the pointer set
PaperDone_dangling ==
    /\ pc = "idle"
    /\ IF papers.live
       THEN /\ last' = [op |-> "paperdone", res |-> 0]
            /\ UNCHANGED <<papers, pc, file, ret>>
       ELSE AssertFails("paperdone")

PaperDone ==
    /\ pc = "idle"
    /\ IF papers.live
       THEN /\ papers' = NullPapers
            /\ last' = [op |-> "paperdone", res |-> 0]
            /\ UNCHANGED <<pc, file, ret>>
       ELSE AssertFails("paperdone")

PaperInfo ==
    /\ pc = "idle"
    /\ \E paper \in QueryNames :
          IF papers.live
          THEN /\ last' = [op |-> "paperinfo", paper |-> paper,
                           res |-> paperinfo(papers.tab, paper)]
               /\ UNCHANGED <<papers, pc, file, ret>>
          ELSE AssertFails("paperinfo")

PaperFirst ==
    /\ pc = "idle"
    /\ IF papers.live
       THEN /\ last' = [op |-> "paperfirst", res |-> hash_get_first(papers.tab)]
            /\ UNCHANGED <<papers, pc, file, ret>>
       ELSE AssertFails("paperfirst")

PaperNext ==
    /\ pc = "idle"
    /\ IF papers.live
       THEN /\ \E spaper \in Records(papers.tab) :
                  last' = [op |-> "papernext", spaper |-> spaper,
                           res |-> hash_get_next(papers.tab, spaper)]
            /\ UNCHANGED <<papers, pc, file, ret>>
       ELSE AssertFails("papernext")

\* the sizes asked for: those of the records, and two of no record
QuerySizes(table) ==
    { <<r.pswidth, r.psheight>> : r \in Records(table) }
        \cup { <<DInt(5), DInt(72)>>, <<DInt(72), DInt(5)>> }

PaperWithSize ==
    /\ pc = "idle"
    /\ IF papers.live
       THEN /\ \E sz \in QuerySizes(papers.tab) :
                  last' = [op |-> "paperwithsize",
                           pswidth |-> sz[1], psheight |-> sz[2],
                           res |-> paperwithsize(papers.tab, sz[1], sz[2])]
            /\ UNCHANGED <<papers, pc, file, ret>>
       ELSE AssertFails("paperwithsize")

SystemPaperName ==
    /\ pc = "idle"
    /\ \E x \in Environments :
          IF papers.live
          THEN /\ last' = [op |-> "systempapername", environ |-> x,
                           res |-> systempapername(papers.tab, x.env, x.confenv, x.fs)]
               /\ UNCHANGED <<papers, pc, file, ret>>
          ELSE AssertFails("systempapername")

\* the undefined conversions of a scan: none without a NaN or an infinity
UndefinedOutcomes(table) ==
    IF \E r \in Records(table) : r.pswidth.cls # "fin" \/ r.psheight.cls # "fin"
    THEN UndefinedMM ELSE {0}

\* without the locale facility defaultpapername touches no catalog; with it
\* the scan starts with paperfirst and its assertion
DefaultPaperName ==
    /\ pc = "idle"
    /\ \E x \in Environments, locale \in Locales, ub \in UndefinedOutcomes(papers.tab) :
          IF locale = <<>> \/ papers.live
          THEN /\ last' = [op |-> "defaultpapername", environ |-> x,
                           locale |-> locale,
                           res |-> defaultpapername(papers.tab, locale, ub)]
               /\ UNCHANGED <<papers, pc, file, ret>>
          ELSE AssertFails("defaultpapername")

Next ==
    \/ PaperInitOpen
    \/ PaperInitLine
    \/ PaperInitReturn
    \/ PaperDone
    \/ PaperInfo
    \/ PaperFirst
    \/ PaperNext
    \/ PaperWithSize
    \/ SystemPaperName
    \/ DefaultPaperName

Spec == Init /\ [][Next]_vars

(* ======================= properties of the claims ===================== *)
\* paperinit has returned and its catalog has not been torn down since
Built == pc = "idle" /\ papers.live
\* ... and it returned success
Succeeded == Built /\ ret = 0

\* the records of a table in the order of paperfirst/papernext: the chains
\* of the used buckets by ascending bucket
RECURSIVE CatalogOrderFrom(_, _)
CatalogOrderFrom(table, b) ==
    IF b >= NBuckets THEN <<>>
    ELSE table[b] \o CatalogOrderFrom(table, next_bucket(table, b))
CatalogOrder(table) == CatalogOrderFrom(table, next_bucket(table, -1))

\* the content lines among the lines read, by position
ContentLines == { i \in 1..Len(file) : IsContentLine(file[i]) }

\* the record the loop body builds from a well-formed content line
RecordOf(l) ==
    LET r == paperinit_line(EmptyTable, l, "0", "0")
    IN r.tab[paperhash([name |-> l[1]], NBuckets)][1]

\* the first token of the first content line of the configuration file an
\* environment designates, <<>> when there is none
ConfigName(x) ==
    LET f == x.fs[IF x.confenv # <<>> THEN x.confenv[1] ELSE PAPERCONF]
    IN IF f.exists /\ f.readable /\ \E i \in 1..Len(f.lines) : IsContentLine(f.lines[i])
       THEN LET first == CHOOSE i \in 1..Len(f.lines) :
                            /\ IsContentLine(f.lines[i])
                            /\ \A j \in 1..(i - 1) : ~IsContentLine(f.lines[j])
            IN <<f.lines[first][1]>>
       ELSE <<>>

\* a record whose two dimensions are finite and convert to the locale size
LocaleMatch(r, locale) ==
    /\ r.pswidth.cls = "fin" /\ PT_TO_MM(r.pswidth, 0) = locale[1]
    /\ r.psheight.cls = "fin" /\ PT_TO_MM(r.psheight, 0) = locale[2]
\* a record no finite dimension of which rules the locale size out
LocaleMayMatch(r, locale) ==
    /\ r.pswidth.cls = "fin" => PT_TO_MM(r.pswidth, 0) = locale[1]
    /\ r.psheight.cls = "fin" => PT_TO_MM(r.psheight, 0) = locale[2]

\* what defaultpapername returns on a catalog for a locale
LocaleOrCompiledIn(table, locale, res) ==
    LET order == CatalogOrder(table)
    IN IF locale = <<>> THEN res = PAPERSIZE
       ELSE \/ /\ res = PAPERSIZE
               /\ \A i \in 1..Len(order) : ~LocaleMatch(order[i], locale)
            \/ \E i \in 1..Len(order) :
                  /\ res = order[i].name
                  /\ LocaleMayMatch(order[i], locale)
                  /\ \A j \in 1..(i - 1) : ~LocaleMatch(order[j], locale)

C2_Claim ==
    ( /\ Succeeded /\ last.op = "paperinfo"
      /\ \A i, j \in ContentLines :
            i # j => ~strcaseeq(file[i][1], file[j][1]) ) =>
        \A r \in Records(papers.tab) :
            strcaseeq(r.name, last.paper) => last.res = <<r>>

(* C3 as stated: when paperinit returns a failure, no record of the lines  *)
(* read is retrievable afterwards through paperinfo, paperwithsize or      *)
(* paperfirst/papernext: each of them finds nothing.                       *)
C3_Claim ==
    ( /\ pc = "idle" /\ ret # 0
      /\ last.op \in {"paperinfo", "paperwithsize", "paperfirst", "papernext"} )
    => last.res = <<>>

\* a token that is a number as a whole, within the range of a double
NumericToken(s) ==
    LET k == DigitRun(s, 1)
        n == IF k + 2 <= Len(s) THEN DigitRun(s, k + 2) ELSE 0
    IN \/ strcaseeq(s, s_nan)
       \/ k > 0 /\ k = Len(s)
       \/ /\ k > 0 /\ n > 0 /\ k + 1 + n = Len(s)
          /\ tolower(s[k + 1]) = 101
          /\ DigitsVal(s, k + 2, n) <= 308

\* the result C4 gives for a content line
ClaimedResult(l) ==
    IF Len(l) < 3 THEN 2
    ELSE IF ~NumericToken(l[2]) \/ ~NumericToken(l[3]) THEN 1
    ELSE IF Len(l) >= 4 /\ \A i \in 1..Len(units) : ~strcaseeq(units[i].name, l[4]) THEN 1
    ELSE 0

(* C4 as stated: paperinit on an openable file returns success if and only *)
(* if every content line is well-formed; the first line with fewer than    *)
(* three tokens, a non-numeric or out-of-range width or height, or an      *)
(* unrecognized unit makes it return the corresponding failure.            *)
C4_Claim ==
    (pc = "idle" /\ last.op = "paperinit" /\ last.opened) =>
        LET bad == { i \in ContentLines : ClaimedResult(file[i]) # 0 }
        IN IF bad = {} THEN ret = 0
           ELSE ret = ClaimedResult(file[CHOOSE i \in bad : \A j \in bad : i <= j])

(* C5 as stated: in every catalog state during and after paperinit there   *)
(* is at most one record per case-insensitive name, and after construction *)
(* the record of a name carries the dimensions of the last line with that  *)
(* name.                                                                   *)
C5_Claim ==
    papers.live =>
        /\ \A r1, r2 \in Records(papers.tab) :
              strcaseeq(r1.name, r2.name) => r1 = r2
        /\ Succeeded =>
              \A i \in ContentLines :
                 (\A j \in ContentLines : j > i => ~strcaseeq(file[j][1], file[i][1]))
                 => \E r \in Records(papers.tab) :
                       /\ strcaseeq(r.name, file[i][1])
                       /\ r.pswidth = RecordOf(file[i]).pswidth
                       /\ r.psheight = RecordOf(file[i]).psheight

\* a length in inches, feet or points, in points
InPoints(v, unit) ==
    IF strcaseeq(unit, s_in) THEN DblMul(v, DInt(72))
    ELSE IF strcaseeq(unit, s_ft) THEN DblMul(v, DInt(864))
    ELSE v

(* C6 as stated: a line with a recognized unit stores the dimensions in    *)
(* PostScript points, as the line without a unit that gives the converted  *)
(* values does (checked for inches, feet and points).                      *)
C6_Claim ==
    papers.live =>
        \A i \in ContentLines :
           ( /\ Len(file[i]) >= 4
             /\ \E u \in {s_in, s_ft, s_pt} : strcaseeq(u, file[i][4])
             /\ NumericToken(file[i][2]) /\ NumericToken(file[i][3])
             /\ \A j \in ContentLines : j < i => ~strcaseeq(file[j][1], file[i][1]) )
           => \E r \in Records(papers.tab) :
                 /\ r.name = file[i][1]
                 /\ r.pswidth = InPoints(strtod(file[i][2]).val, file[i][4])
                 /\ r.psheight = InPoints(strtod(file[i][3]).val, file[i][4])

\* the records with the size last asked of paperwithsize
SizeAsked(table) ==
    { r \in Records(table) :
         r.pswidth = last.pswidth /\ r.psheight = last.psheight }

(* C7 as stated: for every record r of a successfully built catalog,       *)
(* paperwithsize(r.width, r.height) returns a record whose name is r's.    *)
C7_Original ==
    (Succeeded /\ last.op = "paperwithsize") =>
        \A r \in SizeAsked(papers.tab) :
            last.res # <<>> /\ last.res[1].name = r.name

(* C7 amended: for every record r of a successfully built catalog whose    *)
(* width and height are not NaN, paperwithsize(r.width, r.height) returns  *)
(* the first record in catalog order with r's width and height; its name   *)
(* is r's name when no other record has that width and height.             *)
C7_Amended ==
    (Succeeded /\ last.op = "paperwithsize") =>
        \A r \in SizeAsked(papers.tab) :
            (r.pswidth.cls # "nan" /\ r.psheight.cls # "nan") =>
                LET order == CatalogOrder(papers.tab)
                IN /\ last.res # <<>>
                   /\ last.res[1] \in SizeAsked(papers.tab)
                   /\ \E i \in 1..Len(order) :
                         /\ order[i] = last.res[1]
                         /\ \A j \in 1..(i - 1) : order[j] \notin SizeAsked(papers.tab)
                   /\ Cardinality(SizeAsked(papers.tab)) = 1
                         => last.res[1].name = r.name

\* two records of one size, asked for: the one found is not the other
C7_Witness ==
    /\ Succeeded /\ last.op = "paperwithsize"
    /\ last.res # <<>>
    /\ \E r \in SizeAsked(papers.tab) : r.name # last.res[1].name

(* C8 as stated: systempapername returns the stored name of the catalog    *)
(* record whose name equals, ignoring case, the name obtained from the     *)
(* environment variable, the configuration file or the compiled-in         *)
(* default, and the raw name when there is no such record.                 *)
C8_Claim ==
    (pc = "idle" /\ last.op = "systempapername") =>
        LET x == last.environ
            raw == systempaperstr(x.env, x.confenv, x.fs)
            same == { r \in Records(papers.tab) : strcaseeq(r.name, raw) }
        IN IF same # {} THEN \E r \in same : last.res = r.name
           ELSE last.res = raw

(* C9 as stated: systempapername takes the name from the environment       *)
(* variable only when it is set and non-empty, otherwise from the          *)
(* configuration file and then from the compiled-in default, so that the   *)
(* result is never the empty string.                                       *)
C9_Claim ==
    (pc = "idle" /\ last.op = "systempapername") =>
        LET x == last.environ
        IN /\ last.res # s_empty
           /\ (x.env = <<>> \/ x.env = <<s_empty>>) =>
                 last.res = systempapername(papers.tab, <<>>, x.confenv, x.fs)

\* the step is a call of op from outside any call
Calls(op) == pc = "idle" /\ last'.op = op

AssertingOps ==
    {"paperdone", "paperinfo", "paperwithsize", "paperfirst", "papernext",
     "systempapername"}

\* paperdone clears the catalog pointer, and a query or a paperdone with
\* no catalog is stopped by the assertion
TeardownAndAssertions ==
    /\ (Calls("paperdone") /\ papers.live) => (~papers'.live /\ pc' = "idle")
    /\ \A op \in AssertingOps :
          (Calls(op) /\ ~papers.live) => (pc' = "aborted" /\ papers' = papers)
    /\ \A op \in AssertingOps \ {"paperdone"} :
          (Calls(op) /\ papers.live) => (pc' = "idle" /\ papers' = papers)

(* C10 as stated: paperdone clears the global catalog reference, every     *)
(* query and every paperdone issued with no catalog is stopped by          *)
(* assert(papers), and a paperinit never replaces a catalog that is still  *)
(* live.                                                                   *)
C10_Original ==
    [][ /\ TeardownAndAssertions
        /\ Calls("paperinit") => ~papers.live ]_vars

(* C10 amended: paperdone clears the global catalog reference and every    *)
(* query and every paperdone issued with no catalog is stopped by          *)
(* assert(papers); paperinit is not guarded: whether or not a catalog is   *)
(* still live, it sets the global reference to a fresh empty catalog.      *)
C10_Amended ==
    [][ /\ TeardownAndAssertions
        /\ Calls("paperinit") => (papers'.live /\ papers'.tab = EmptyTable) ]_vars

\* a query after a paperinit and a paperdone, stopped by the assertion
C10_Witness ==
    /\ pc = "aborted" /\ last.op = "paperwithsize"
    /\ ~papers.live /\ Len(file) > 0

====
